---------------------------- MODULE Spec2Model ----------------------------
(***************************************************************************)
(* im-native-dialog: ImNativeFileDialog<T>, a single-slot bridge between   *)
(* an immediate-mode UI thread and a blocking native file dialog that runs *)
(* on a detached worker thread (src/src/lib.rs).                           *)
(*                                                                         *)
(* The UI thread owns the slot and calls show*/open* , check() and         *)
(* is_open(); each call is one atomic UI step.  Every successful open      *)
(* creates a crossbeam bounded(1) channel and spawns one worker thread,    *)
(* whose steps (start, native call returns, send, exit, panic) interleave  *)
(* freely with the UI steps.                                               *)
(***************************************************************************)
EXTENDS Integers, Sequences, FiniteSets, TLC

(* ------------------------------ bounds -------------------------------- *)

\* Number of successful opens (request cycles) explored.
MaxRequests == 2

\* Largest number of paths a multiple-file dialog returns in the model.
MaxSel == 1

(* ------------------------- program constants -------------------------- *)

\* crossbeam_channel::bounded(1)
Capacity == 1

(* --------------------------- value encoding --------------------------- *)

\* Option<X>: None is the empty tuple, Some(x) the one-element tuple.
None == <<>>
Some(x) == <<x>>
is_some(opt) == opt # None

\* Result<T, native_dialog::Error>
Ok(v) == [tag |-> "Ok", val |-> v]
Err(e) == [tag |-> "Err", val |-> <<e>>]

Paths == {"/a"}
DialogErrors == {"IoFailure"}

\* The two payload types the crate instantiates the slot with.
PayloadTypes == {"Option<PathBuf>", "Vec<PathBuf>"}

\* The dialog methods available on ImNativeFileDialog<t>.
Kinds(t) ==
    IF t = "Vec<PathBuf>"
    THEN {"show_open_multiple_file"}
    ELSE {"open_single_dir", "open_single_file", "show_save_single_file"}

RECURSIVE PathSeqs(_)
PathSeqs(n) ==
    IF n = 0 THEN {<<>>}
    ELSE LET shorter == PathSeqs(n - 1)
         IN  shorter \cup {Append(s, p) : s \in {q \in shorter : Len(q) = n - 1}, p \in Paths}

\* Values of T: Option<PathBuf> is None or Some(path) (a tuple of length
\* at most one), Vec<PathBuf> is a list of paths.
Values(t) ==
    IF t = "Vec<PathBuf>" THEN PathSeqs(MaxSel) ELSE {None} \cup {Some(p) : p \in Paths}

\* T::default(): None for Option<PathBuf>, the empty Vec for Vec<PathBuf>.
DefaultT(t) == IF t = "Vec<PathBuf>" THEN <<>> ELSE None

\* What the blocking native call can return: a selection, the empty value
\* when the user cancels, or a native error.
NativeOutcomes(t) == {Ok(v) : v \in Values(t)} \cup {Err(e) : e \in DialogErrors}

(* ------------------------------- state -------------------------------- *)

VARIABLES
    T,          \* payload type of this slot, fixed at construction
    receiver,   \* self.receiver: None or Some(channel id)
    chan,       \* chan[c]: the channel created by the c-th successful open
    worker,     \* worker[c]: the thread spawned by the c-th successful open
    last,       \* the most recent UI call and what it returned
    warnings,   \* number of log::warn! lines written
    delivered,  \* delivered[c]: the results check() returned as Some for request c
    opens_ok,   \* number of open calls that returned Ok(())
    dropped     \* the slot value has been dropped

vars == <<T, receiver, chan, worker, last, warnings, delivered, opens_ok, dropped>>

NoCall == [op |-> "new", open |-> "-", check |-> None, is_open |-> FALSE]
OpenCall(r) == [op |-> "open", open |-> r, check |-> None, is_open |-> FALSE]
CheckCall(r) == [op |-> "check", open |-> "-", check |-> r, is_open |-> FALSE]
IsOpenCall(b) == [op |-> "is_open", open |-> "-", check |-> None, is_open |-> b]

\* Default::default(): receiver: None
Init ==
    /\ T \in PayloadTypes
    /\ receiver = None
    /\ chan = <<>>
    /\ worker = <<>>
    /\ last = NoCall
    /\ warnings = 0
    /\ delivered = <<>>
    /\ opens_ok = 0
    /\ dropped = FALSE

(* --------------------------- the channel ------------------------------ *)

\* crossbeam_channel::bounded(1): an empty buffer, one Sender, one Receiver.
bounded == [buf |-> <<>>, senders |-> 1, receivers |-> 1]

\* Receiver::try_recv: a buffered message is returned first; only an empty
\* channel whose senders are all gone reports Disconnected.
try_recv_no_disconnect(ch) ==
    IF ch.buf # <<>> THEN [tag |-> "Ok", msg |-> Some(Head(ch.buf))]
    ELSE [tag |-> "Empty", msg |-> None]
try_recv_disconnect_first(ch) ==
    IF ch.senders = 0 THEN [tag |-> "Disconnected", msg |-> None]
    ELSE IF ch.buf # <<>> THEN [tag |-> "Ok", msg |-> Some(Head(ch.buf))]
    ELSE [tag |-> "Empty", msg |-> None]
try_recv(ch) ==
    IF ch.buf # <<>> THEN [tag |-> "Ok", msg |-> Some(Head(ch.buf))]
    ELSE IF ch.senders = 0 THEN [tag |-> "Disconnected", msg |-> None]
    ELSE [tag |-> "Empty", msg |-> None]

\* try_recv never waits: it returns in every state of the channel.
try_recv_blocking(ch) == ch.buf # <<>> \/ ch.senders = 0
try_recv_returns(ch) == TRUE

\* Sender::send on a bounded channel proceeds only while the buffer has room.
send_ready_rendezvous(ch) == Len(ch.buf) < Capacity - 1
send_ready(ch) == Len(ch.buf) < Capacity

\* The channel after try_recv took its message (if any).
after_recv(ch) == IF ch.buf # <<>> THEN [ch EXCEPT !.buf = Tail(ch.buf)] ELSE ch

(* ------------------------------ the slot ------------------------------ *)

\* is_open(): self.receiver.is_some()
is_open_dialog == \E w \in 1..Len(worker) : worker[w].pc = "dialog"
is_open == is_some(receiver)

\* show(): if self.receiver.is_some() { return Err(AlreadyOpen) }
show_unguarded(rx) == FALSE
AlreadyOpen(rx) == is_some(rx)

\* check(): the value returned for the outcome r of try_recv.
check_surface_disconnect(r) ==
    IF r.tag = "Ok" THEN r.msg
    ELSE IF r.tag = "Disconnected" THEN Some(Err("Disconnected"))
    ELSE None
check_swallow_error(r) ==
    IF r.tag = "Ok" THEN (IF r.msg[1].tag = "Err" THEN Some(Ok(DefaultT(T))) ELSE r.msg)
    ELSE IF r.tag = "Disconnected" THEN Some(Ok(DefaultT(T)))
    ELSE None
check_return(r) ==
    IF r.tag = "Ok" THEN r.msg
    ELSE IF r.tag = "Disconnected" THEN Some(Ok(DefaultT(T)))
    ELSE None

\* check(): log::warn! is reached in the Disconnected arm only.
check_warns_never(r) == FALSE
check_warns(r) == r.tag = "Disconnected"

\* check(): self.receiver after the call; take() empties it and only the
\* Empty arm puts the receiver back.
check_keep_on_ok(rx, r) == IF r.tag \in {"Empty", "Ok"} THEN rx ELSE None
check_keep_on_disconnect(rx, r) == IF r.tag \in {"Empty", "Disconnected"} THEN rx ELSE None
check_drop_on_empty(rx, r) == None
check_receiver(rx, r) == IF r.tag = "Empty" THEN rx ELSE None

\* show_open_multiple_file / open_single_dir / open_single_file /
\* show_save_single_file called on the UI thread, each through show().  The
\* location hint only configures the native dialog and is not modelled.
Open(kind) ==
    /\ ~dropped
    /\ IF AlreadyOpen(receiver)
       THEN /\ last' = OpenCall("AlreadyOpen")
            /\ UNCHANGED <<T, receiver, chan, worker, warnings, delivered, opens_ok, dropped>>
       ELSE /\ Len(chan) < MaxRequests
            /\ chan' = Append(chan, bounded)
            /\ worker' = Append(worker, [pc |-> "spawned", kind |-> kind, result |-> None])
            /\ delivered' = Append(delivered, <<>>)
            /\ receiver' = Some(Len(chan) + 1)
            /\ opens_ok' = opens_ok + 1
            /\ last' = OpenCall("Ok")
            /\ UNCHANGED <<T, warnings, dropped>>

\* check() called on the UI thread.
Check ==
    /\ ~dropped
    /\ IF is_some(receiver)
       THEN LET c == receiver[1]
                r == try_recv(chan[c])
                ret == check_return(r)
                rx == check_receiver(receiver, r)
            IN  /\ try_recv_returns(chan[c])
                /\ receiver' = rx
                \* a Receiver that is not put back is dropped when check returns
                /\ chan' = [chan EXCEPT ![c] =
                              [after_recv(@) EXCEPT !.receivers = IF rx = None THEN 0 ELSE @]]
                /\ warnings' = IF check_warns(r) THEN warnings + 1 ELSE warnings
                /\ delivered' = IF ret # None
                                THEN [delivered EXCEPT ![c] = Append(@, ret[1])]
                                ELSE delivered
                /\ last' = CheckCall(ret)
       ELSE /\ last' = CheckCall(None)
            /\ UNCHANGED <<receiver, chan, warnings, delivered>>
    /\ UNCHANGED <<T, worker, opens_ok, dropped>>

\* is_open() called on the UI thread.
IsOpen ==
    /\ ~dropped
    /\ last' = IsOpenCall(is_open)
    /\ UNCHANGED <<T, receiver, chan, worker, warnings, delivered, opens_ok, dropped>>

\* The slot value goes out of scope: its Receiver, if any, is dropped.
Drop ==
    /\ ~dropped
    /\ dropped' = TRUE
    /\ chan' = IF is_some(receiver)
               THEN [chan EXCEPT ![receiver[1]].receivers = 0]
               ELSE chan
    /\ UNCHANGED <<T, receiver, worker, last, warnings, delivered, opens_ok>>

(* ----------------------------- the worker ----------------------------- *)

Workers == 1..Len(worker)

\* A thread that has been spawned and has not terminated.
Alive(w) == worker[w].pc \in {"spawned", "dialog", "returned", "sent"}

\* The thread starts: FileDialog::new(), set_location, and it enters the
\* blocking native call.
WorkerStart(w) ==
    /\ worker[w].pc = "spawned"
    /\ worker' = [worker EXCEPT ![w].pc = "dialog"]
    /\ UNCHANGED <<T, receiver, chan, last, warnings, delivered, opens_ok, dropped>>

\* The native dialog call returns its outcome.
WorkerDialogReturn(w, res) ==
    /\ worker[w].pc = "dialog"
    /\ res \in NativeOutcomes(T)
    /\ worker' = [worker EXCEPT ![w].pc = "returned", ![w].result = Some(res)]
    /\ UNCHANGED <<T, receiver, chan, last, warnings, delivered, opens_ok, dropped>>

\* sender.send(result).expect(..): waits while the buffer is full, fails
\* (and the expect panics) when the Receiver is gone.
WorkerSend(w) ==
    /\ worker[w].pc = "returned"
    /\ IF chan[w].receivers = 0
       THEN /\ worker' = [worker EXCEPT ![w].pc = "panicked"]
            /\ chan' = [chan EXCEPT ![w].senders = 0]
       ELSE /\ send_ready(chan[w])
            /\ chan' = [chan EXCEPT ![w].buf = Append(@, worker[w].result[1])]
            /\ worker' = [worker EXCEPT ![w].pc = "sent"]
    /\ UNCHANGED <<T, receiver, last, warnings, delivered, opens_ok, dropped>>

\* drop(location); the closure returns, the Sender is dropped, the thread ends.
WorkerExit(w) ==
    /\ worker[w].pc = "sent"
    /\ worker' = [worker EXCEPT ![w].pc = "exited"]
    /\ chan' = [chan EXCEPT ![w].senders = 0]
    /\ UNCHANGED <<T, receiver, last, warnings, delivered, opens_ok, dropped>>

\* The thread terminates abnormally before sending (a panic in the native
\* layer): unwinding drops the Sender.
WorkerPanic(w) ==
    /\ worker[w].pc \in {"spawned", "dialog"}
    /\ worker' = [worker EXCEPT ![w].pc = "panicked"]
    /\ chan' = [chan EXCEPT ![w].senders = 0]
    /\ UNCHANGED <<T, receiver, last, warnings, delivered, opens_ok, dropped>>

(* --------------------------- specification ---------------------------- *)

UIOpen == \E k \in Kinds(T) : Open(k)
DialogReturns == \E w \in Workers, res \in NativeOutcomes(T) : WorkerDialogReturn(w, res)
Starts == \E w \in Workers : WorkerStart(w)
Sends == \E w \in Workers : WorkerSend(w)
Exits == \E w \in Workers : WorkerExit(w)
Panics == \E w \in Workers : WorkerPanic(w)

Next ==
    \/ UIOpen
    \/ Check
    \/ IsOpen
    \/ Drop
    \/ Starts
    \/ DialogReturns
    \/ Sends
    \/ Exits
    \/ Panics

Spec == Init /\ [][Next]_vars

\* The UI polls check() on every redraw frame for as long as the slot lives.
FairSpec == Spec /\ WF_vars(Check)

\* The UI polls every frame, every spawned thread is scheduled, and every
\* native dialog is eventually closed by the user.
LiveSpec ==
    /\ Spec
    /\ WF_vars(Check)
    /\ WF_vars(Starts)
    /\ WF_vars(DialogReturns)
    /\ WF_vars(Sends)
    /\ WF_vars(Exits)

(* ------------------------- derived quantities ------------------------- *)

Requests == 1..Len(chan)

\* The request the slot is waiting for, as a set (empty when the slot is Empty).
InFlight == IF is_some(receiver) THEN {receiver[1]} ELSE {}

\* The worker has performed its send.
HasSent(w) == worker[w].pc \in {"sent", "exited"}

\* The worker has neither sent nor terminated.
BeforeSend(w) == worker[w].pc \in {"spawned", "dialog", "returned"}

\* The worker terminated without ever sending.
NeverSent(w) == worker[w].pc = "panicked"

\* The worker is inside the blocking native dialog call.
DialogShown == \E w \in Workers : worker[w].pc = "dialog"

RECURSIVE SomeCount(_)
SomeCount(n) == IF n = 0 THEN 0 ELSE Len(delivered[n]) + SomeCount(n - 1)

\* Number of check() calls that returned Some.
checks_some == SomeCount(Len(delivered))

\* A successful open is possible within the explored number of requests.
CanSpawn == Len(chan) < MaxRequests

\* Request c exists and its worker has sent.
SentPending(c) == IF c \in Requests THEN HasSent(c) ELSE FALSE

\* check() has returned Some for request c exactly once.
Consumed(c) == IF c \in Requests THEN Len(delivered[c]) = 1 ELSE FALSE

\* Request c exists and its worker terminated without sending.
DisconnectPending(c) == IF c \in Requests THEN NeverSent(c) ELSE FALSE

\* Request c was resolved by check() as Some(Ok(T::default())) and the slot
\* no longer waits for it.
Masked(c) ==
    IF c \in Requests
    THEN delivered[c] = <<Ok(DefaultT(T))>> /\ c \notin InFlight
    ELSE FALSE

(* ------------------------------- claims ------------------------------- *)

\* C1: an open call made while a request is in flight returns
\* Err(AlreadyOpen), spawns no worker and leaves the receiver, every channel
\* and every worker (hence the result the in-flight request will deliver)
\* unchanged.
C1_SingleSlot ==
    [][(UIOpen /\ is_some(receiver)) =>
          /\ last'.open = "AlreadyOpen"
          /\ UNCHANGED <<receiver, chan, worker, delivered, opens_ok, warnings>>]_vars

C1_Witness ==
    /\ last = OpenCall("AlreadyOpen")
    /\ is_some(receiver)
    /\ Len(worker) = 1
    /\ worker[1].pc = "dialog"

\* C2: for a request whose worker sends, check() returns None on every call
\* before the send, Some(result) on exactly one call, and None on every call
\* after the consuming one until a new open succeeds; under continued
\* polling the consuming call does happen while the slot lives.
C2_ExactlyOnce ==
    /\ [](\A c \in Requests :
            /\ Len(delivered[c]) <= 1
            /\ (c \in InFlight => delivered[c] = <<>>)
            /\ (c \notin InFlight => Len(delivered[c]) = 1))
    /\ [][Check =>
            /\ (\E c \in InFlight : BeforeSend(c)) => last'.check = None
            /\ (\E c \in InFlight : HasSent(c)) =>
                  /\ is_some(last'.check)
                  /\ receiver' = None
            /\ InFlight = {} => (last'.check = None /\ receiver' = None)]_vars
    /\ \A c \in 1..MaxRequests : SentPending(c) ~> (dropped \/ Consumed(c))

C2_Witness ==
    /\ Len(worker) = 1
    /\ HasSent(1)
    /\ receiver = None
    /\ last = CheckCall(None)
    /\ delivered[1] = <<worker[1].result[1]>>

\* C3: right after a check() that returned Some, whether it consumed a
\* delivered result or observed a disconnected channel, is_open() is false
\* and the next open call returns Ok(()) and puts the slot in flight again.
C3_StateReset ==
    /\ []((~dropped /\ last.op = "check" /\ is_some(last.check)) =>
            /\ ~is_open
            /\ (CanSpawn => ENABLED UIOpen))
    /\ [][(UIOpen /\ last.op = "check" /\ is_some(last.check)) =>
            /\ last'.open = "Ok"
            /\ is_some(receiver')
            /\ Len(worker') = Len(worker) + 1
            /\ worker'[receiver'[1]].pc = "spawned"]_vars

C3_Witness ==
    /\ last = OpenCall("Ok")
    /\ Len(worker) = 2
    /\ receiver = Some(2)
    /\ NeverSent(1)
    /\ delivered[1] = <<Ok(DefaultT(T))>>

\* C4: when the worker of the in-flight request terminated without sending,
\* the next check() returns Some(Ok(T::default())), never an Err, and
\* empties the slot; that request yields Some exactly once, later calls
\* return None until a new open, and under continued polling the call
\* happens while the slot lives.
C4_DisconnectMasking ==
    /\ [][(Check /\ \E c \in InFlight : NeverSent(c)) =>
            /\ last'.check = Some(Ok(DefaultT(T)))
            /\ receiver' = None]_vars
    /\ [](\A c \in Requests : NeverSent(c) =>
            /\ delivered[c] \in {<<>>, <<Ok(DefaultT(T))>>}
            /\ (c \notin InFlight => delivered[c] = <<Ok(DefaultT(T))>>))
    /\ [][(Check /\ InFlight = {}) => (last'.check = None /\ receiver' = None)]_vars
    /\ \A c \in 1..MaxRequests : DisconnectPending(c) ~> (dropped \/ Masked(c))

C4_Witness ==
    /\ Len(worker) = 1
    /\ NeverSent(1)
    /\ ~dropped
    /\ last = CheckCall(Some(Ok(DefaultT(T))))
    /\ receiver = None
    /\ warnings = 1

\* C5: a check() that returns None changes nothing in the slot: an Empty
\* slot stays Empty, and an in-flight slot whose live worker has not sent
\* keeps the same receiver of the same, still connected, channel.
C5_EmptyPollFrame ==
    [][(Check /\ last'.check = None) =>
          /\ UNCHANGED <<receiver, chan, worker, delivered, warnings, opens_ok>>
          /\ \A c \in InFlight : chan'[c].receivers = 1]_vars

C5_Witness ==
    /\ last = CheckCall(None)
    /\ receiver = Some(1)
    /\ worker[1].pc = "returned"
    /\ chan[1].receivers = 1

\* C6: is_open() is true exactly when a request is in flight: some open has
\* succeeded and no later check() has returned Some.  This holds from
\* construction on and before the worker has started; the value an is_open()
\* call returns is that truth value and the call changes nothing.
C6_IsOpenIffInFlight ==
    /\ [](~dropped => (is_open <=> opens_ok - checks_some = 1))
    /\ [](~dropped => opens_ok - checks_some \in {0, 1})
    /\ [][IsOpen =>
            /\ last'.is_open = (opens_ok - checks_some = 1)
            /\ UNCHANGED <<receiver, chan, worker, delivered, warnings, opens_ok>>]_vars

C6_Witness ==
    /\ last = IsOpenCall(TRUE)
    /\ Len(worker) = 2
    /\ worker[2].pc = "spawned"
    /\ delivered[1] # <<>>

\* C7: is_open() is true exactly when a worker is inside the blocking
\* native dialog call.
C7_IsOpenIffDialogShown == ~dropped => (is_open <=> DialogShown)

\* C8: the check() that consumes a worker's message returns Some of exactly
\* the outcome the native call returned to that worker: a selection, the
\* empty value of a cancelled dialog, or the native error.
C8_PassThrough ==
    /\ [][(Check /\ \E c \in InFlight : HasSent(c)) =>
            last'.check = worker[receiver[1]].result]_vars
    /\ [](\A c \in Requests : (HasSent(c) /\ delivered[c] # <<>>) =>
            delivered[c] = worker[c].result)
    /\ [](last.op = "check" => last.check \in {None} \cup {Some(r) : r \in NativeOutcomes(T)})

C8_Witness ==
    /\ Len(worker) = 1
    /\ HasSent(1)
    /\ worker[1].result = Some(Err("IoFailure"))
    /\ last = CheckCall(Some(Err("IoFailure")))

\* C9 as stated: at most one spawned worker thread has not yet terminated.
C9_AtMostOneAlive == Cardinality({w \in Workers : Alive(w)}) <= 1

\* C9 as amended: at most one worker has neither sent its result nor
\* terminated; workers that have already sent may still be alive.
C9_AtMostOneBeforeSend == Cardinality({w \in Workers : BeforeSend(w)}) <= 1

C9_Witness ==
    /\ Len(worker) = 2
    /\ worker[1].pc = "sent"
    /\ worker[2].pc = "dialog"

\* C10: while the slot lives, open, check() and is_open() can each be taken
\* as the next step in every state, whatever the worker is doing; none of
\* them waits for a worker step.
C10_UINeverWaits ==
    ~dropped =>
        /\ ENABLED Check
        /\ ENABLED IsOpen
        /\ ((is_open \/ CanSpawn) => ENABLED UIOpen)

C10_Witness ==
    /\ ~dropped
    /\ last = CheckCall(None)
    /\ is_some(receiver)
    /\ worker[receiver[1]].pc = "dialog"

\* C11: the worker's send never waits for the UI: when a worker is about to
\* send, the channel of its request is empty and the send step is enabled,
\* whatever the UI does; no channel ever holds more than one message.
C11_SendNeverBlocks ==
    /\ \A c \in Requests : Len(chan[c].buf) <= 1
    /\ \A w \in Workers : worker[w].pc = "returned" =>
          /\ chan[w].buf = <<>>
          /\ ENABLED WorkerSend(w)

C11_Witness ==
    /\ Len(worker) = 2
    /\ worker[2].pc = "sent"
    /\ chan[2].buf = <<worker[2].result[1]>>
    /\ receiver = Some(2)
    /\ ~dropped
    /\ last = OpenCall("Ok")

\* C12: the slot has no terminal state: while it lives, with check() polled
\* and every worker eventually sending or terminating, an in-flight slot
\* always becomes Empty again, and in Empty an open returns Ok(()) and is
\* possible, in every request cycle.
C12_Reusable ==
    /\ (is_open /\ ~dropped) ~> (dropped \/ ~is_open)
    /\ []((~dropped /\ ~is_open /\ CanSpawn) => ENABLED UIOpen)
    /\ [][(UIOpen /\ ~is_open) => (last'.open = "Ok" /\ is_open')]_vars

C12_Witness ==
    /\ ~dropped
    /\ ~is_open
    /\ Len(worker) = MaxRequests
    /\ \A c \in Requests : Len(delivered[c]) = 1
    /\ last.op = "check"
    /\ is_some(last.check)

\* C13: an open call returns Err(AlreadyOpen) exactly when is_open() is true
\* at the call, and Ok(()) otherwise; so an open made right after is_open()
\* returned false, as the example UI gates it, never gets AlreadyOpen,
\* whatever the workers did in between.
C13_AlreadyOpenIffIsOpen ==
    /\ [][UIOpen => (last'.open = "AlreadyOpen" <=> is_open)]_vars
    /\ [][UIOpen => (last'.open = "Ok" <=> ~is_open)]_vars
    /\ [][(UIOpen /\ last = IsOpenCall(FALSE)) => last'.open = "Ok"]_vars

C13_Witness ==
    /\ last = OpenCall("Ok")
    /\ receiver = Some(2)
    /\ HasSent(1)
    /\ worker[2].pc = "spawned"
    /\ ~dropped

\* Number of requests check() resolved through the Disconnected arm.
resolved_by_disconnect ==
    Cardinality({c \in Requests : NeverSent(c) /\ delivered[c] # <<>>})

\* C14: check() writes one warning exactly in the calls that find the
\* in-flight channel empty with every sender gone, and none when it returns
\* a delivered result, returns None, or no request is in flight; no other
\* step logs, so the number of warnings equals the number of requests
\* resolved by disconnect.
C14_WarnOncePerDisconnect ==
    /\ [][Check =>
            IF \E c \in InFlight : chan[c].buf = <<>> /\ chan[c].senders = 0
            THEN warnings' = warnings + 1
            ELSE warnings' = warnings]_vars
    /\ [][~Check => warnings' = warnings]_vars
    /\ [](warnings = resolved_by_disconnect)

C14_Witness ==
    /\ warnings = 1
    /\ Len(worker) = 2
    /\ NeverSent(1)
    /\ HasSent(2)
    /\ delivered[2] = worker[2].result
    /\ last = CheckCall(None)
    /\ ~dropped

\* The worker's send failed because the Receiver was gone, and its expect
\* panicked: it had the native call's result but terminated abnormally.
SendPanicked(w) == worker[w].pc = "panicked" /\ worker[w].result # None

\* C15: when the slot is dropped while a request is in flight, the worker
\* is not stopped and runs to completion: having finished the native call
\* it performs its send and terminates normally, never abnormally.
C15_RunsToCompletionAfterDrop ==
    \A w \in Workers : (dropped /\ w \in InFlight) => ~SendPanicked(w)

\* C16: a result that was sent is never masked by the sender's
\* disconnection: when the worker has sent and terminated before the poll,
\* check() returns Some of the sent result and logs nothing; the
\* Disconnected arm is taken only on an empty channel without senders.
C16_DeliveredNotMasked ==
    /\ [][(Check /\ \E c \in InFlight : worker[c].pc = "exited") =>
            /\ last'.check = worker[receiver[1]].result
            /\ warnings' = warnings
            /\ receiver' = None]_vars
    /\ [][(Check /\ warnings' # warnings) =>
            \E c \in InFlight : chan[c].buf = <<>> /\ chan[c].senders = 0 /\ NeverSent(c)]_vars
    /\ [](\A c \in Requests : HasSent(c) => delivered[c] \in {<<>>, worker[c].result})

C16_Witness ==
    /\ Len(worker) = 1
    /\ worker[1].pc = "exited"
    /\ chan[1].senders = 0
    /\ worker[1].result = Some(Ok(Some("/a")))
    /\ last = CheckCall(Some(Ok(Some("/a"))))
    /\ warnings = 0
    /\ receiver = None

\* The request created by the most recent successful open.
latest == Len(worker)

\* What check() may return as Some for request c: the outcome its own worker
\* sent, or the default when that worker terminated without sending.
own_outcome(c) ==
    IF HasSent(c) THEN worker[c].result
    ELSE IF NeverSent(c) THEN Some(Ok(DefaultT(T)))
    ELSE None

\* C17: every Some returned by check() belongs to the request of the most
\* recent successful open: it is the outcome sent by that request's worker,
\* or the default for that request's disconnect, never something from an
\* earlier cycle.
C17_NoStaleDelivery ==
    /\ [][(Check /\ is_some(last'.check)) =>
            /\ receiver = Some(latest)
            /\ last'.check = own_outcome(latest)
            /\ delivered' = [delivered EXCEPT ![latest] = last'.check]]_vars
    /\ [](is_open => receiver = Some(latest))
    /\ [](\A c \in Requests : delivered[c] \in {<<>>, own_outcome(c)})

C17_Witness ==
    /\ Len(worker) = 2
    /\ worker[1].result = Some(Ok(Some("/a")))
    /\ worker[2].result = Some(Err("IoFailure"))
    /\ delivered[1] = worker[1].result
    /\ delivered[2] = worker[2].result
    /\ last = CheckCall(worker[2].result)

\* C18: while the slot lives the worker's send cannot fail: the Receiver
\* of a worker that has neither sent nor terminated is still held by the
\* slot, and no worker has panicked in its expect.
C18_SendNeverFailsWhileAlive ==
    ~dropped =>
        /\ \A w \in Workers : BeforeSend(w) =>
              /\ chan[w].receivers = 1
              /\ receiver = Some(w)
        /\ \A w \in Workers : ~SendPanicked(w)

C18_Witness ==
    /\ ~dropped
    /\ Len(worker) = 2
    /\ worker[1].pc = "exited"
    /\ worker[2].pc = "sent"
    /\ chan[2].receivers = 1
    /\ last = CheckCall(None)

\* C19: the number of workers spawned equals the number of open calls that
\* returned Ok(()); successful opens minus Some-returning checks is 1 when
\* is_open() is true and 0 when it is false; check() never returns Some
\* more often than open has succeeded.
C19_Counting ==
    /\ Len(worker) = opens_ok
    /\ Len(chan) = opens_ok
    /\ opens_ok - checks_some = (IF is_open THEN 1 ELSE 0)
    /\ checks_some <= opens_ok

C19_Witness ==
    /\ opens_ok = 2
    /\ checks_some = 1
    /\ is_open
    /\ Len(worker) = 2
    /\ last = IsOpenCall(TRUE)

=============================================================================
